---- MODULE Spec2Model ----
(***************************************************************************)
(* Model of the DotCode scanner's multi-image extraction pipeline:         *)
(*   src/services/gemini.ts  - credential resolution, analyzeImage         *)
(*   src/App.tsx             - AppContent state, processImages             *)
(*   src/unnamed/part_001    - FileUpload.processFiles                     *)
(*                                                                         *)
(* JavaScript values are tagged records; strings whose content the code    *)
(* inspects are sequences: a dotCode is a sequence of characters, an error *)
(* message a sequence of fragments in which the marker words the code      *)
(* searches for ("API Key", "JSON", "fetch", "network") are fragments of   *)
(* their own.                                                              *)
(***************************************************************************)
EXTENDS Integers, Sequences, FiniteSets, TLC

(* ------------------------------ bounds -------------------------------- *)

\* Largest number of images in one batch.
MaxImages == 2

\* Largest number of items in one well-formed collaborator payload.
MaxItems == 2

\* Calls of analyzeImage in a run of the credential module on its own.
MaxCalls == 3

(* --------------------------- JavaScript values ------------------------ *)

NULL == [t |-> "null"]

Undefined == [t |-> "undefined"]

Str(s) == [t |-> "string", v |-> s]

\* A number, written by its digits.
Num(n) == [t |-> "number", v |-> <<n>>]

Arr(s) == [t |-> "array", v |-> s]

\* JavaScript truthiness of a value (used by `x || y`, `if (x)`, `!x`).
Truthy(x) ==
  CASE x.t = "null" -> FALSE
    [] x.t = "undefined" -> FALSE
    [] x.t = "string" -> x.v # <<>>
    [] x.t = "number" -> x.v # <<"0">>
    [] OTHER -> TRUE

SeqsUpTo(S, n) == UNION {[1..k -> S] : k \in 0..n}

(* ------------------------ messages and includes ----------------------- *)

\* String.prototype.includes on a message: the marker is one of its fragments.
Includes(message, marker) == \E i \in 1..Len(message) : message[i] = marker

MissingKeyMessage == <<"API Key", " is missing. Please enter it in Settings.">>

NoTextMessage == <<"No response text received from Gemini API">>

ParseFailedMessage ==
  <<"Failed to parse AI response. The model returned invalid ", "JSON", ".">>

Status403Message ==
  <<"API Key", " invalid or restricted (403). Please check your API key.">>

Status404Message ==
  <<"Model not found (404). The ", "API Key", " may not have access to this model.">>

Status429Message == <<"API Quota exceeded (429). You are being rate limited.">>

Status400Message == <<"Bad Request (400). The image might be too large or invalid.">>

CredentialErrorMessage == <<"API Key", " configuration is missing or invalid.">>

NetworkErrorMessage ==
  <<"Network error detected. Please check your internet connection.">>

AnalysisFailedMessage == <<"Analysis failed. See technical details for more info.">>

NoCodesMessage == <<"No recognizable DotCodes found. Please ensure image is clear.">>

NoCodesDetail ==
  <<"The AI scanned the image but did not return any recognized items. This usually means the image is blurry, the codes are too small, or the model could not confidently read the text.">>

\* Message of the TypeError the merge loop raises on an item it cannot read.
TypeErrorMessage == <<"TypeError: cannot read the item's dotCode">>

(* ------------------- ScannedItem / AnalysisResult --------------------- *)

\* Characters a dotCode is made of in this model; " " is the whitespace.
Whitespace == {" "}

ToUpperCase(c) ==
  CASE c = "a" -> "A"
    [] c = "b" -> "B"
    [] c = "c" -> "C"
    [] OTHER -> c

\* s.replace(/\s+/g, '')
RECURSIVE RemoveWhitespace(_)
RemoveWhitespace(s) ==
  IF s = <<>> THEN <<>>
  ELSE IF Head(s) \in Whitespace THEN RemoveWhitespace(Tail(s))
  ELSE <<Head(s)>> \o RemoveWhitespace(Tail(s))

\* s.toUpperCase()
UpperCase(s) == [i \in 1..Len(s) |-> ToUpperCase(s[i])]

Item(code, conf) == [t |-> "object", dotCode |-> code, confidence |-> conf]

\* Items a schema-conforming collaborator can emit.
ItemAB == Item(Str(<<"a", "b">>), Str(<<"High">>))

ItemASpaceB == Item(Str(<<"A", " ", "b">>), Str(<<"Low">>))

ItemC == Item(Str(<<"c">>), Str(<<"Medium">>))

ItemBlank == Item(Str(<<" ">>), Str(<<"High">>))

GoodItems == {ItemAB, ItemASpaceB, ItemC}

Payload(items, summary) == [t |-> "object", items |-> items, summary |-> summary]

CollaboratorSummary == Str(<<"Found product codes">>)

ItemEmpty == Item(Str(<<>>), Str(<<"Low">>))

WellFormedPayloads ==
  {Payload(Arr(s), CollaboratorSummary) : s \in SeqsUpTo(GoodItems, MaxItems)}
    \cup {Payload(Arr(<<ItemBlank, ItemAB>>), CollaboratorSummary),
          Payload(Arr(<<ItemEmpty, ItemBlank>>), CollaboratorSummary)}

\* Objects that parse as JSON but do not have the AnalysisResult shape.
PayloadNoItems == Payload(Undefined, Undefined)

PayloadNumericCode ==
  Payload(Arr(<<ItemC, Item(Num("5"), Str(<<"High">>))>>), CollaboratorSummary)

PayloadBadConfidence ==
  Payload(Arr(<<Item(Str(<<"a", "b">>), Str(<<"Certain">>))>>), Num("1"))

\* An item without the required dotCode.
PayloadMissingCode ==
  Payload(Arr(<<Item(Undefined, Str(<<"Low">>)), ItemC>>), CollaboratorSummary)

IllFormedPayloads ==
  {PayloadNoItems, PayloadNumericCode, PayloadBadConfidence, PayloadMissingCode}

Payloads == WellFormedPayloads \cup IllFormedPayloads

Confidences == {Str(<<"High">>), Str(<<"Medium">>), Str(<<"Low">>)}

\* The ScannedItem interface (gemini.ts 55-61).
IsScannedItem(x) ==
  /\ x.t = "object"
  /\ x.dotCode.t = "string"
  /\ x.confidence \in Confidences

\* The AnalysisResult interface (gemini.ts 63-66).
IsAnalysisResult(x) ==
  /\ x.t = "object"
  /\ x.items.t = "array"
  /\ \A i \in 1..Len(x.items.v) : IsScannedItem(x.items.v[i])
  /\ x.summary.t = "string"

(* ------------------ gemini.ts: credential resolution ------------------ *)

\* key.trim()
RECURSIVE TrimStart(_)
TrimStart(s) ==
  IF s # <<>> /\ Head(s) \in Whitespace THEN TrimStart(Tail(s)) ELSE s

RECURSIVE TrimEnd(_)
TrimEnd(s) ==
  IF s # <<>> /\ s[Len(s)] \in Whitespace
  THEN TrimEnd(SubSeq(s, 1, Len(s) - 1))
  ELSE s

Trim(s) == TrimEnd(TrimStart(s))

\* The literal "undefined" a build without API_KEY leaves in process.env.API_KEY.
Placeholder == Str(<<"undefined">>)

\* envKey && envKey !== "" && envKey !== "undefined"
UsableEnvKey(env) == Truthy(env) /\ env # Str(<<>>) /\ env # Placeholder

\* hasApiKey that takes the literal "undefined" for a key.
hasApiKeyNoPlaceholderCheck(env, item) ==
  IF Truthy(env) /\ env # Str(<<>>) THEN TRUE
  ELSE IF Truthy(item) /\ item # Str(<<>>) THEN TRUE
  ELSE FALSE

\* hasApiKey that looks at the stored item only.
hasApiKeyStoredOnly(env, item) ==
  IF Truthy(item) /\ item # Str(<<>>) THEN TRUE
  ELSE FALSE

\* hasApiKey(), as a function of process.env.API_KEY and the stored item.
hasApiKeyOf(env, item) ==
  IF UsableEnvKey(env) THEN TRUE
  ELSE IF Truthy(item) /\ item # Str(<<>>) THEN TRUE
  ELSE FALSE

\* The apiKey getAI resolves when no client is cached (gemini.ts 36-41).
ResolveApiKey(env, item) ==
  IF ~Truthy(env) \/ env = Str(<<>>) \/ env = Placeholder
  THEN (IF Truthy(item) THEN item ELSE Str(<<>>))
  ELSE env

MissingKeyError == [code |-> "MISSING_API_KEY", status |-> 0, message |-> MissingKeyMessage]

\* getAI(): [client, thrown]; client is the cached or the new GoogleGenAI.
getAIOf(cached, env, item) ==
  IF cached # NULL THEN [client |-> cached, thrown |-> NULL]
  ELSE IF ~Truthy(ResolveApiKey(env, item))
       THEN [client |-> NULL, thrown |-> MissingKeyError]
       ELSE [client |-> [t |-> "GoogleGenAI", apiKey |-> ResolveApiKey(env, item)],
             thrown |-> NULL]

(* ------------------------ gemini.ts: analyzeImage --------------------- *)

\* A response text is a sequence of tokens: braces, commentary fragments, a
\* bare JSON scalar, and the serialised members of one payload object.
Tok(c) == [ch |-> c]

Members(p) == [ch |-> "members", of |-> p]

NewError(message) == [code |-> "", status |-> 0, message |-> message]

\* The three states of the promise analyzeImage returns.
Pending == [ok |-> FALSE, settled |-> FALSE, value |-> NULL, error |-> NULL]

Fulfilled(value) == [ok |-> TRUE, settled |-> TRUE, value |-> value, error |-> NULL]

Rejected(error) == [ok |-> FALSE, settled |-> TRUE, value |-> NULL, error |-> error]

\* text.indexOf(c), 1-based; 0 when JavaScript answers -1.
IndexOf(text, c) ==
  IF \E i \in 1..Len(text) : text[i] = Tok(c)
  THEN CHOOSE i \in 1..Len(text) :
         text[i] = Tok(c) /\ \A j \in 1..(i - 1) : text[j] # Tok(c)
  ELSE 0

\* text.lastIndexOf(c), 1-based; 0 when JavaScript answers -1.
LastIndexOf(text, c) ==
  IF \E i \in 1..Len(text) : text[i] = Tok(c)
  THEN CHOOSE i \in 1..Len(text) :
         text[i] = Tok(c) /\ \A j \in (i + 1)..Len(text) : text[j] # Tok(c)
  ELSE 0

\* text.substring(from0, to0) with JavaScript's 0-based, end-exclusive
\* indices: the arguments are swapped when from0 > to0.
Substring(text, from0, to0) ==
  LET lo == IF from0 > to0 THEN to0 ELSE from0
      hi == IF from0 > to0 THEN from0 ELSE to0
  IN SubSeq(text, lo + 1, hi)

\* JSON.parse: an object is "{" members "}", a scalar is a value of its
\* own; anything else is a SyntaxError.
JsonParse(str) ==
  IF Len(str) = 3 /\ str[1] = Tok("{") /\ str[2].ch = "members" /\ str[3] = Tok("}")
  THEN Fulfilled(str[2].of)
  ELSE IF str = <<Tok("5")>>
  THEN Fulfilled(Num("5"))
  ELSE Rejected(NewError(<<"SyntaxError">>))

\* Number of characters of the response quoted in the error message.
ExcerptLength == 50

Excerpt(text) ==
  LET n == IF Len(text) < ExcerptLength THEN Len(text) ELSE ExcerptLength
  IN [i \in 1..n |-> text[i].ch]

InvalidFormatMessage(text) ==
  <<"AI did not return a valid ", "JSON", " object. Response: ">>
    \o Excerpt(text) \o <<"...">>

\* The try block after the request was answered (gemini.ts 131-155).
ReadResponse(response) ==
  IF response.kind = "reject"
  THEN Rejected([code |-> "", status |-> response.status, message |-> response.message])
  ELSE LET text == response.text
           jsonStartIndex == IndexOf(text, "{")
           jsonEndIndex == LastIndexOf(text, "}")
       IN IF text = <<>>
          THEN Rejected(NewError(NoTextMessage))
          ELSE IF jsonStartIndex = 0 \/ jsonEndIndex = 0
          THEN Rejected(NewError(InvalidFormatMessage(text)))
          ELSE IF JsonParse(Substring(text, jsonStartIndex - 1, jsonEndIndex)).ok
          THEN JsonParse(Substring(text, jsonStartIndex - 1, jsonEndIndex))
          ELSE Rejected(NewError(ParseFailedMessage))

\* The catch block of analyzeImage (gemini.ts 157-173): the error it throws.
RethrownError(error) ==
  IF error.code = "MISSING_API_KEY" THEN error
  ELSE IF Includes(error.message, "API Key") THEN error
  ELSE IF Includes(error.message, "JSON") THEN error
  ELSE IF error.status = 403 THEN NewError(Status403Message)
  ELSE IF error.status = 404 THEN NewError(Status404Message)
  ELSE IF error.status = 429 THEN NewError(Status429Message)
  ELSE IF error.status = 400 THEN NewError(Status400Message)
  ELSE NewError(<<"Analysis failed: ">>
         \o (IF error.message # <<>> THEN error.message ELSE <<"Unknown error">>))

\* analyzeImage: how the promise settles, given what getAI threw (NULL when
\* it returned a client) and how the collaborator answered.
analyzeImageOf(thrown, response) ==
  LET r == IF thrown # NULL THEN Rejected(thrown) ELSE ReadResponse(response)
  IN IF r.ok THEN r ELSE Rejected(RethrownError(r.error))

(* Collaborator behaviours the model draws from. *)

Reject(st, m) == [kind |-> "reject", status |-> st, message |-> m, text |-> <<>>]

\* Rejections of the request: by HTTP status (0: none, the request never
\* got an answer), with the message the SDK or the browser attached.
Rejections ==
  { Reject(0, <<"Load failed">>),
    Reject(0, <<"Failed to ", "fetch">>),
    Reject(500, <<>>),
    Reject(400, <<"API Key", " not valid. Please pass a valid API key.">>),
    Reject(400, <<"Request payload size exceeds the limit">>),
    Reject(403, <<"Permission denied">>),
    Reject(404, <<"models/gemini-1.5-flash is not found">>),
    Reject(429, <<"Resource has been exhausted">>) }

Text(t) == [kind |-> "text", status |-> 0, message |-> <<>>, text |-> t]

ObjectText(p) == <<Tok("{"), Members(p), Tok("}")>>

OddTexts ==
  { <<>>,
    <<Tok("Sorry, I cannot read this image.")>>,
    <<Tok("API Key"), Tok(" quota reached")>>,
    <<Tok("{"), Members(PayloadNoItems)>>,
    <<Tok("}"), Tok("5"), Tok("{")>>,
    <<Tok("{"), Tok("see"), Tok("}"), Tok(" ")>> \o ObjectText(PayloadNoItems),
    <<Tok("Here you go: ")>> \o ObjectText(Payload(Arr(<<ItemC>>), CollaboratorSummary))
       \o <<Tok(" Done.")>> }

Responses ==
  Rejections \cup {Text(ObjectText(p)) : p \in Payloads} \cup {Text(t) : t \in OddTexts}

(* ----------------------- App.tsx: the merge loop ---------------------- *)

\* NormalizedCode that leaves the whitespace in place.
NormalizedCodeKeepsWhitespace(item) ==
  IF item.t # "object"
  THEN [thrown |-> TRUE, code |-> <<>>]
  ELSE LET code == IF Truthy(item.dotCode) THEN item.dotCode ELSE Str(<<>>)
       IN IF code.t # "string"
          THEN [thrown |-> TRUE, code |-> <<>>]
          ELSE [thrown |-> FALSE, code |-> UpperCase(code.v)]

\* (item.dotCode || "").replace(/\s+/g, '').toUpperCase(); thrown is TRUE
\* when the expression raises a TypeError.
NormalizedCode(item) ==
  IF item.t # "object"
  THEN [thrown |-> TRUE, code |-> <<>>]
  ELSE LET code == IF Truthy(item.dotCode) THEN item.dotCode ELSE Str(<<>>)
       IN IF code.t # "string"
          THEN [thrown |-> TRUE, code |-> <<>>]
          ELSE [thrown |-> FALSE, code |-> UpperCase(RemoveWhitespace(code.v))]

\* res.items of a settled value (undefined on anything but an object).
ItemsOf(res) == IF res.t = "object" THEN res.items ELSE Undefined

EmptyMerge ==
  [thrown |-> FALSE, uniqueCodes |-> {}, allItems |-> <<>>, processedCount |-> 0]

\* MergeItem without the uniqueCodes.has test.
MergeItemNoSeenCheck(acc, item) ==
  LET n == NormalizedCode(item)
  IN IF acc.thrown THEN acc
     ELSE IF n.thrown THEN [acc EXCEPT !.thrown = TRUE]
     ELSE IF Len(n.code) > 0
     THEN [acc EXCEPT !.uniqueCodes = @ \cup {n.code},
                      !.allItems = Append(@, item)]
     ELSE acc

\* MergeItem in which a later duplicate replaces the item already kept.
MergeItemLastWins(acc, item) ==
  LET n == NormalizedCode(item)
  IN IF acc.thrown THEN acc
     ELSE IF n.thrown THEN [acc EXCEPT !.thrown = TRUE]
     ELSE IF Len(n.code) > 0 /\ n.code \notin acc.uniqueCodes
     THEN [acc EXCEPT !.uniqueCodes = @ \cup {n.code},
                      !.allItems = Append(@, item)]
     ELSE IF Len(n.code) > 0
     THEN [acc EXCEPT !.allItems =
             [k \in 1..Len(@) |->
                IF NormalizedCode(@[k]).code = n.code THEN item ELSE @[k]]]
     ELSE acc

\* The body of res.items.forEach (App.tsx 231-240) for one item.
MergeItem(acc, item) ==
  LET n == NormalizedCode(item)
  IN IF acc.thrown THEN acc
     ELSE IF n.thrown THEN [acc EXCEPT !.thrown = TRUE]
     ELSE IF Len(n.code) > 0 /\ n.code \notin acc.uniqueCodes
     THEN [acc EXCEPT !.uniqueCodes = @ \cup {n.code},
                      !.allItems = Append(@, item)]
     ELSE acc

RECURSIVE MergeItems(_, _)
MergeItems(acc, items) ==
  IF items = <<>> THEN acc
  ELSE MergeItems(MergeItem(acc, Head(items)), Tail(items))

\* The body of results.forEach (App.tsx 229-243) for one settled value.
MergeResult(acc, res) ==
  IF acc.thrown THEN acc
  ELSE IF Truthy(res) /\ Truthy(ItemsOf(res))
  THEN LET after == MergeItems(acc, ItemsOf(res).v)
       IN IF after.thrown THEN after
          ELSE [after EXCEPT !.processedCount = @ + 1]
  ELSE acc

\* MergeResults that stops after the first outcome.
MergeResultsFirstOnly(acc, results) ==
  IF results = <<>> THEN acc ELSE MergeResult(acc, Head(results))

RECURSIVE MergeResults(_, _)
MergeResults(acc, results) ==
  IF results = <<>> THEN acc
  ELSE MergeResults(MergeResult(acc, Head(results)), Tail(results))

\* What the promise of imgs.map's callback resolves with (App.tsx 217-225):
\* the value of analyzeImage, or null for a caught failure.
ResolvedWith(call) == IF call.ok THEN call.value ELSE NULL

SummaryText(processedCount, imageCount, found) ==
  Str(<<"Processed ", ToString(processedCount), " of ", ToString(imageCount),
        " images. Found ", ToString(found), " unique codes.">>)

\* A state setter that is not called.
Unset == [t |-> "unset"]

\* lastError.message || String(lastError)
DetailOf(e) == IF e.message # <<>> THEN e.message ELSE <<"Error">>

\* TryBlock that recognises a credential failure by its code alone.
TryBlockCodeOnly(results, last, imageCount) ==
  LET m == MergeResults(EmptyMerge, results)
      none == [setResult |-> Unset, setErrorDetails |-> Unset,
               setIsApiKeyMissing |-> FALSE, thrown |-> <<>>]
  IN IF m.thrown
     THEN [none EXCEPT !.thrown = TypeErrorMessage]
     ELSE IF m.processedCount = 0 /\ imageCount > 0
     THEN IF last # NULL /\ last.code = "MISSING_API_KEY"
          THEN [none EXCEPT !.setIsApiKeyMissing = TRUE,
                            !.thrown = CredentialErrorMessage]
          ELSE IF last # NULL /\ (Includes(last.message, "fetch")
                                   \/ Includes(last.message, "network"))
          THEN [none EXCEPT !.thrown = NetworkErrorMessage]
          ELSE IF last # NULL
          THEN [none EXCEPT !.setErrorDetails = Str(DetailOf(last)),
                            !.thrown = AnalysisFailedMessage]
          ELSE [none EXCEPT !.setErrorDetails = Str(NoCodesDetail),
                            !.thrown = NoCodesMessage]
     ELSE [none EXCEPT !.setResult =
             [t |-> "object", items |-> Arr(m.allItems),
              summary |-> SummaryText(m.processedCount, imageCount, Len(m.allItems))]]

\* TryBlock that recognises a network failure by the word "network" alone.
TryBlockNetworkWordOnly(results, last, imageCount) ==
  LET m == MergeResults(EmptyMerge, results)
      none == [setResult |-> Unset, setErrorDetails |-> Unset,
               setIsApiKeyMissing |-> FALSE, thrown |-> <<>>]
  IN IF m.thrown
     THEN [none EXCEPT !.thrown = TypeErrorMessage]
     ELSE IF m.processedCount = 0 /\ imageCount > 0
     THEN IF last # NULL /\ (last.code = "MISSING_API_KEY"
                              \/ Includes(last.message, "API Key"))
          THEN [none EXCEPT !.setIsApiKeyMissing = TRUE,
                            !.thrown = CredentialErrorMessage]
          ELSE IF last # NULL /\ Includes(last.message, "network")
          THEN [none EXCEPT !.thrown = NetworkErrorMessage]
          ELSE IF last # NULL
          THEN [none EXCEPT !.setErrorDetails = Str(DetailOf(last)),
                            !.thrown = AnalysisFailedMessage]
          ELSE [none EXCEPT !.setErrorDetails = Str(NoCodesDetail),
                            !.thrown = NoCodesMessage]
     ELSE [none EXCEPT !.setResult =
             [t |-> "object", items |-> Arr(m.allItems),
              summary |-> SummaryText(m.processedCount, imageCount, Len(m.allItems))]]

\* The try block of processImages after the await (App.tsx 229-271): the
\* state setters it calls and the message of the error it throws, if any.

TryBlock(results, last, imageCount) ==
  LET m == MergeResults(EmptyMerge, results)
      none == [setResult |-> Unset, setErrorDetails |-> Unset,
               setIsApiKeyMissing |-> FALSE, thrown |-> <<>>]
  IN IF m.thrown
     THEN [none EXCEPT !.thrown = TypeErrorMessage]
     ELSE IF m.processedCount = 0 /\ imageCount > 0
     THEN IF last # NULL /\ (last.code = "MISSING_API_KEY"
                              \/ Includes(last.message, "API Key"))
          THEN [none EXCEPT !.setIsApiKeyMissing = TRUE,
                            !.thrown = CredentialErrorMessage]
          ELSE IF last # NULL /\ (Includes(last.message, "fetch")
                                   \/ Includes(last.message, "network"))
          THEN [none EXCEPT !.thrown = NetworkErrorMessage]
          ELSE IF last # NULL
          THEN [none EXCEPT !.setErrorDetails = Str(DetailOf(last)),
                            !.thrown = AnalysisFailedMessage]
          ELSE [none EXCEPT !.setErrorDetails = Str(NoCodesDetail),
                            !.thrown = NoCodesMessage]
     ELSE [none EXCEPT !.setResult =
             [t |-> "object", items |-> Arr(m.allItems),
              summary |-> SummaryText(m.processedCount, imageCount, Len(m.allItems))]]

\* CatchBlock that shows the credential error like any other error.
CatchBlockShowsCredentialError(tried, capturedErrorDetails) ==
  IF tried.thrown = <<>>
  THEN [tried EXCEPT !.thrown = <<>>] @@ [setError |-> Unset]
  ELSE [tried EXCEPT !.thrown = <<>>,
                     !.setErrorDetails =
                        IF ~capturedErrorDetails THEN Str(tried.thrown) ELSE @]
       @@ [setError |-> Str(tried.thrown)]

\* The catch block (App.tsx 273-280), applied to what the try block left:
\* capturedErrorDetails tells whether the errorDetails the closure captured
\* is truthy; it is not the current state.
CatchBlock(tried, capturedErrorDetails) ==
  IF tried.thrown = <<>> \/ tried.thrown = CredentialErrorMessage
  THEN [tried EXCEPT !.thrown = <<>>] @@ [setError |-> Unset]
  ELSE [tried EXCEPT !.thrown = <<>>,
                     !.setErrorDetails =
                        IF ~capturedErrorDetails THEN Str(tried.thrown) ELSE @]
       @@ [setError |-> Str(tried.thrown)]

\* A state setter applied to the current value.
Apply(set, current) == IF set = Unset THEN current ELSE set

(* ------------------------------- state -------------------------------- *)

VARIABLES
  envKey,            \* process.env.API_KEY (fixed at build time)
  storedKey,         \* localStorage item 'user_gemini_api_key' (NULL: absent)
  ai,                \* gemini.ts: the lazily built client
  sessionInfo,       \* AppContent state
  images,
  isProcessing,
  result,
  error,
  errorDetails,
  showErrorDetails,
  isOnline,
  isApiKeyMissing,
  reading,           \* FileUpload: the selection whose files are being read
  pc,                \* processImages: "idle", "awaiting" (Promise.all),
                     \*   "done" (try/catch finished, finally not yet run)
  calls,             \* processImages: the promise of each image's analyzeImage
  results,           \* processImages: the array Promise.all resolves with,
                     \*   filled as the promises settle (Undefined: not yet)
  lastError,         \* processImages: let lastError
  captured           \* processImages: whether the errorDetails its closure
                     \*   captured is truthy

vars ==
  <<envKey, storedKey, ai, sessionInfo, images, isProcessing, result, error,
    errorDetails, showErrorDetails, isOnline, isApiKeyMissing, reading, pc,
    calls, results, lastError, captured>>

gemini == <<envKey, storedKey, ai>>

batch == <<pc, calls, results, lastError, captured>>

EnvKeys == {Placeholder, Str(<<"E">>)}

\* What the user can type into the key field.
TypedKeys == {<<" ", "K">>}

Sessions == {Str(<<"MLB Red 10">>)}

\* AppContent after its first render and mount effect (App.tsx 97-116).
Mounted(env, item, online) ==
  /\ envKey = env
  /\ storedKey = item
  /\ ai = NULL
  /\ sessionInfo = NULL
  /\ images = NULL
  /\ isProcessing = FALSE
  /\ result = NULL
  /\ error = NULL
  /\ errorDetails = NULL
  /\ showErrorDetails = FALSE
  /\ isOnline = online
  /\ isApiKeyMissing = ~hasApiKeyOf(env, item)
  /\ reading = NULL
  /\ pc = "idle"
  /\ calls = <<>>
  /\ results = <<>>
  /\ lastError = NULL
  /\ captured = FALSE

Init ==
  \E env \in EnvKeys, item \in {NULL, Str(<<"K">>)}, online \in BOOLEAN :
    Mounted(env, item, online)

\* ContinuationDue had the calls not caught their own failures: Promise.all
\* rejects with the first failure.
ContinuationDueFailFast ==
  /\ pc = "awaiting"
  /\ \/ \A i \in 1..Len(calls) : calls[i].settled
     \/ \E i \in 1..Len(calls) : calls[i].settled /\ ~calls[i].ok

\* Every dispatched call has settled and the continuation of the await has
\* not run yet.
ContinuationDue == pc = "awaiting" /\ \A i \in 1..Len(calls) : calls[i].settled

\* processImages is running or about to resume: the browser handles no
\* other event until it has returned.
JobRunning == ContinuationDue \/ pc = "done"

\* The main screen is rendered (not the key setup screen, App.tsx 287).
MainScreen == ~isApiKeyMissing

(* ------------------------- App.tsx: handlers -------------------------- *)

handleOnline ==
  /\ ~JobRunning
  /\ isOnline' = TRUE
  /\ UNCHANGED <<gemini, sessionInfo, images, isProcessing, result, error,
                 errorDetails, showErrorDetails, isApiKeyMissing, reading, batch>>

handleOffline ==
  /\ ~JobRunning
  /\ isOnline' = FALSE
  /\ UNCHANGED <<gemini, sessionInfo, images, isProcessing, result, error,
                 errorDetails, showErrorDetails, isApiKeyMissing, reading, batch>>

\* setStoredApiKey that stores the key and leaves the cached client.
setStoredApiKeyKeepsClient(key, item, client) ==
  IF Truthy(Str(key))
  THEN [storedKey |-> Str(Trim(key)), ai |-> client]
  ELSE [storedKey |-> item, ai |-> client]

\* setStoredApiKey(key) (gemini.ts 8-13): the new item and client.
setStoredApiKeyOf(key, item, client) ==
  IF Truthy(Str(key))
  THEN [storedKey |-> Str(Trim(key)), ai |-> NULL]
  ELSE [storedKey |-> item, ai |-> client]

\* "Save & Continue" on the setup screen (App.tsx 147-155, 313-316).
handleSaveApiKey(tempApiKey) ==
  /\ ~JobRunning
  /\ isApiKeyMissing
  /\ IF Truthy(Str(Trim(tempApiKey)))
     THEN /\ storedKey' = setStoredApiKeyOf(tempApiKey, storedKey, ai).storedKey
          /\ ai' = setStoredApiKeyOf(tempApiKey, storedKey, ai).ai
          /\ isApiKeyMissing' = FALSE
          /\ error' = NULL
          /\ errorDetails' = NULL
     ELSE UNCHANGED <<storedKey, ai, isApiKeyMissing, error, errorDetails>>
  /\ UNCHANGED <<envKey, sessionInfo, images, isProcessing, result,
                 showErrorDetails, isOnline, reading, batch>>

\* "Reset/Change API Key" (App.tsx 157-162): removeStoredApiKey, then the
\* page reloads, which discards the module and component state.
handleClearApiKey ==
  /\ ~JobRunning
  /\ MainScreen
  /\ storedKey' = NULL
  /\ ai' = NULL
  /\ sessionInfo' = NULL
  /\ images' = NULL
  /\ isProcessing' = FALSE
  /\ result' = NULL
  /\ error' = NULL
  /\ errorDetails' = NULL
  /\ showErrorDetails' = FALSE
  /\ isApiKeyMissing' = ~hasApiKeyOf(envKey, NULL)
  /\ reading' = NULL
  /\ pc' = "idle"
  /\ calls' = <<>>
  /\ results' = <<>>
  /\ lastError' = NULL
  /\ captured' = FALSE
  /\ UNCHANGED <<envKey, isOnline>>

handleSessionSubmit(form) ==
  /\ ~JobRunning
  /\ MainScreen
  /\ sessionInfo = NULL
  /\ IF ~isOnline
     THEN /\ error' = Str(<<"Internet connection is required to start a session.">>)
          /\ UNCHANGED <<sessionInfo, errorDetails>>
     ELSE /\ sessionInfo' = form
          /\ error' = NULL
          /\ errorDetails' = NULL
  /\ UNCHANGED <<gemini, images, isProcessing, result, showErrorDetails,
                 isOnline, isApiKeyMissing, reading, batch>>

\* "Scan New Batch" in the results view (App.tsx 182-188, 596-603).
handleScanReset ==
  /\ ~JobRunning
  /\ MainScreen
  /\ sessionInfo # NULL
  /\ result # NULL
  /\ images' = NULL
  /\ result' = NULL
  /\ error' = NULL
  /\ errorDetails' = NULL
  /\ showErrorDetails' = FALSE
  /\ UNCHANGED <<gemini, sessionInfo, isProcessing, isOnline, isApiKeyMissing,
                 reading, batch>>

\* "Home" (App.tsx 190-193, 358-367).
handleHome ==
  /\ ~JobRunning
  /\ MainScreen
  /\ sessionInfo # NULL
  /\ sessionInfo' = NULL
  /\ images' = NULL
  /\ result' = NULL
  /\ error' = NULL
  /\ errorDetails' = NULL
  /\ showErrorDetails' = FALSE
  /\ UNCHANGED <<gemini, isProcessing, isOnline, isApiKeyMissing, reading, batch>>

\* "Show/Hide Technical Details" (App.tsx 550-558).
toggleErrorDetails ==
  /\ ~JobRunning
  /\ MainScreen
  /\ sessionInfo # NULL
  /\ Truthy(error)
  /\ Truthy(errorDetails)
  /\ showErrorDetails' = ~showErrorDetails
  /\ UNCHANGED <<gemini, sessionInfo, images, isProcessing, result, error,
                 errorDetails, isOnline, isApiKeyMissing, reading, batch>>

\* The device's storage loses the item outside the application (site data
\* cleared, another tab resetting the key): getItem answers null from then on.
StorageCleared ==
  /\ ~JobRunning
  /\ storedKey # NULL
  /\ storedKey' = NULL
  /\ UNCHANGED <<envKey, ai, sessionInfo, images, isProcessing, result, error,
                 errorDetails, showErrorDetails, isOnline, isApiKeyMissing,
                 reading, batch>>

(* ---------------------- FileUpload and the batch ---------------------- *)

\* The upload control is rendered (App.tsx 570-575).
UploadShown ==
  MainScreen /\ sessionInfo # NULL /\ result = NULL /\ ~isProcessing /\ isOnline

\* processFiles (part_001 18-37): count image files start to be read; the
\* onFileSelect it will call is the handleImageSelect of the current render,
\* whose closure holds the current isOnline and errorDetails.
processFiles(count) ==
  /\ ~JobRunning
  /\ UploadShown
  /\ reading = NULL
  /\ reading' = [t |-> "closure", count |-> count, isOnline |-> isOnline,
                 errorDetails |-> Truthy(errorDetails)]
  /\ UNCHANGED <<gemini, sessionInfo, images, isProcessing, result, error,
                 errorDetails, showErrorDetails, isOnline, isApiKeyMissing, batch>>

\* The synchronous part of imgs.map(...) (App.tsx 217-225, gemini.ts 72-73):
\* every call runs getAI before it first awaits; the first one builds and
\* caches the client, or they all fail without a request.
DispatchedCalls(count) ==
  [i \in 1..count |->
     IF getAIOf(ai, envKey, storedKey).thrown # NULL
     THEN Rejected(RethrownError(getAIOf(ai, envKey, storedKey).thrown))
     ELSE Pending]

\* The slots of Promise.all's array after the dispatch: a call rejected at
\* dispatch has resolved with null, the others have not settled.
DispatchedResults(count) ==
  [i \in 1..count |->
     IF DispatchedCalls(count)[i].settled
     THEN ResolvedWith(DispatchedCalls(count)[i])
     ELSE Undefined]

\* lastError after the inner catch ran for every call that is rejected at
\* dispatch, in image order.
DispatchedLastError(count) ==
  IF getAIOf(ai, envKey, storedKey).thrown # NULL
  THEN RethrownError(getAIOf(ai, envKey, storedKey).thrown)
  ELSE NULL

\* All files are read: handleImageSelect (App.tsx 195-202), then
\* processImages up to its await (App.tsx 204-227).
handleImageSelect ==
  /\ ~JobRunning
  /\ reading # NULL
  /\ reading' = NULL
  /\ IF ~reading.isOnline
     THEN /\ error' = Str(<<"Cannot analyze images without an internet connection.">>)
          /\ UNCHANGED <<ai, images, isProcessing, errorDetails, batch>>
     ELSE /\ images' = Arr([i \in 1..reading.count |-> i])
          /\ isProcessing' = TRUE
          /\ error' = NULL
          /\ errorDetails' = NULL
          /\ ai' = getAIOf(ai, envKey, storedKey).client
          /\ pc' = "awaiting"
          /\ calls' = DispatchedCalls(reading.count)
          /\ results' = DispatchedResults(reading.count)
          /\ lastError' = DispatchedLastError(reading.count)
          /\ captured' = reading.errorDetails
  /\ UNCHANGED <<envKey, storedKey, sessionInfo, result, showErrorDetails,
                 isOnline, isApiKeyMissing>>

\* The first slot of Promise.all's array that is not filled yet.
FirstFree(rs) == CHOOSE k \in 1..Len(rs) :
                   rs[k] = Undefined /\ \A j \in 1..(k - 1) : rs[j] # Undefined

\* analyzeImageSettles had a failed call been sent again: the call of image
\* i settles a second time.
analyzeImageSettlesWithRetry(i, response) ==
  /\ pc = "awaiting"
  /\ i \in 1..Len(calls)
  /\ ~calls[i].settled \/ ~calls[i].ok
  /\ calls' = [calls EXCEPT ![i] = analyzeImageOf(NULL, response)]
  /\ results' = [results EXCEPT ![i] = ResolvedWith(analyzeImageOf(NULL, response))]
  /\ lastError' = IF analyzeImageOf(NULL, response).ok
                  THEN lastError
                  ELSE analyzeImageOf(NULL, response).error
  /\ UNCHANGED <<gemini, sessionInfo, images, isProcessing, result, error,
                 errorDetails, showErrorDetails, isOnline, isApiKeyMissing,
                 reading, pc, captured>>

\* analyzeImageSettles had the outcomes been collected as they arrive.
analyzeImageSettlesInArrivalOrder(i, response) ==
  /\ pc = "awaiting"
  /\ i \in 1..Len(calls)
  /\ ~calls[i].settled
  /\ calls' = [calls EXCEPT ![i] = analyzeImageOf(NULL, response)]
  /\ results' = [results EXCEPT ![FirstFree(results)] =
                   ResolvedWith(analyzeImageOf(NULL, response))]
  /\ lastError' = IF analyzeImageOf(NULL, response).ok
                  THEN lastError
                  ELSE analyzeImageOf(NULL, response).error
  /\ UNCHANGED <<gemini, sessionInfo, images, isProcessing, result, error,
                 errorDetails, showErrorDetails, isOnline, isApiKeyMissing,
                 reading, pc, captured>>

\* The collaborator answers the request of image i; the inner catch
\* (App.tsx 220-224) records a failure in lastError, and the promise of
\* image i resolves into slot i of Promise.all's array.
analyzeImageSettles(i, response) ==
  /\ pc = "awaiting"
  /\ i \in 1..Len(calls)
  /\ ~calls[i].settled
  /\ calls' = [calls EXCEPT ![i] = analyzeImageOf(NULL, response)]
  /\ results' = [results EXCEPT ![i] = ResolvedWith(analyzeImageOf(NULL, response))]
  /\ lastError' = IF analyzeImageOf(NULL, response).ok
                  THEN lastError
                  ELSE analyzeImageOf(NULL, response).error
  /\ UNCHANGED <<gemini, sessionInfo, images, isProcessing, result, error,
                 errorDetails, showErrorDetails, isOnline, isApiKeyMissing,
                 reading, pc, captured>>

\* What the rest of processImages does to the component state.
Outcome(rs, last, capturedErrorDetails) ==
  CatchBlock(TryBlock(rs, last, Len(rs)), capturedErrorDetails)

\* Promise.all resolved: the merge, the classification and the catch block
\* (App.tsx 227-280).
processImagesResumes ==
  /\ ContinuationDue
  /\ result' = Apply(Outcome(results, lastError, captured).setResult, result)
  /\ error' = Apply(Outcome(results, lastError, captured).setError, error)
  /\ errorDetails' =
       Apply(Outcome(results, lastError, captured).setErrorDetails, errorDetails)
  /\ isApiKeyMissing' =
       (isApiKeyMissing \/ Outcome(results, lastError, captured).setIsApiKeyMissing)
  /\ pc' = "done"
  /\ UNCHANGED <<gemini, sessionInfo, images, isProcessing, showErrorDetails,
                 isOnline, reading, calls, results, lastError, captured>>

\* The finally block (App.tsx 281-283); processImages returns and its
\* locals are gone.
processImagesFinally ==
  /\ pc = "done"
  /\ isProcessing' = FALSE
  /\ pc' = "idle"
  /\ calls' = <<>>
  /\ results' = <<>>
  /\ lastError' = NULL
  /\ captured' = FALSE
  /\ UNCHANGED <<gemini, sessionInfo, images, result, error, errorDetails,
                 showErrorDetails, isOnline, isApiKeyMissing, reading>>

Next ==
  \/ handleOnline
  \/ handleOffline
  \/ \E k \in TypedKeys : handleSaveApiKey(k)
  \/ handleClearApiKey
  \/ \E form \in Sessions : handleSessionSubmit(form)
  \/ handleScanReset
  \/ handleHome
  \/ toggleErrorDetails
  \/ StorageCleared
  \/ \E count \in 1..MaxImages : processFiles(count)
  \/ handleImageSelect
  \/ \E i \in 1..MaxImages, response \in Responses : analyzeImageSettles(i, response)
  \/ processImagesResumes
  \/ processImagesFinally

Spec == Init /\ [][Next]_vars

\* The answers of the collaborator in the runs checked for termination:
\* a payload, a rejected credential and an exhausted quota.
LiveResponses ==
  { Text(ObjectText(Payload(Arr(<<ItemC>>), CollaboratorSummary))),
    Reject(403, <<"Permission denied">>),
    Reject(429, <<"Resource has been exhausted">>) }

NextLive ==
  \/ handleOnline
  \/ handleOffline
  \/ \E k \in TypedKeys : handleSaveApiKey(k)
  \/ handleClearApiKey
  \/ \E form \in Sessions : handleSessionSubmit(form)
  \/ handleScanReset
  \/ handleHome
  \/ toggleErrorDetails
  \/ StorageCleared
  \/ \E count \in 1..MaxImages : processFiles(count)
  \/ handleImageSelect
  \/ \E i \in 1..MaxImages, response \in LiveResponses :
       analyzeImageSettles(i, response)
  \/ processImagesResumes
  \/ processImagesFinally

\* The event loop runs every continuation that is due, and every request
\* that was sent is answered or fails.
SpecFair ==
  /\ Init
  /\ [][NextLive]_vars
  /\ WF_vars(\E i \in 1..MaxImages, response \in LiveResponses :
               analyzeImageSettles(i, response))
  /\ WF_vars(processImagesResumes)
  /\ WF_vars(processImagesFinally)

(* ------------- gemini.ts on its own: the credential module ------------ *)

\* The values process.env.API_KEY can have in a build.
CredEnvKeys == {Undefined, Str(<<>>), Placeholder, Str(<<"E">>)}

\* The arguments setStoredApiKey is called with.
CredKeys == {<<>>, <<" ">>, <<"undefined">>, <<" ", "K">>}

\* How the collaborator answers in this specification.
CredResponses ==
  { Reject(429, <<"Resource has been exhausted">>),
    Text(ObjectText(Payload(Arr(<<ItemC>>), CollaboratorSummary))) }

\* The module is loaded: no client yet; the application around it is absent.
InitCred ==
  /\ envKey \in CredEnvKeys
  /\ storedKey \in {NULL, Str(<<"K">>)}
  /\ ai = NULL
  /\ sessionInfo = NULL
  /\ images = NULL
  /\ isProcessing = FALSE
  /\ result = NULL
  /\ error = NULL
  /\ errorDetails = NULL
  /\ showErrorDetails = FALSE
  /\ isOnline = TRUE
  /\ isApiKeyMissing = FALSE
  /\ reading = NULL
  /\ pc = "idle"
  /\ calls = <<>>
  /\ results = <<>>
  /\ lastError = NULL
  /\ captured = FALSE

\* setStoredApiKey(key) (gemini.ts 8-13).
setStoredApiKey(key) ==
  /\ storedKey' = setStoredApiKeyOf(key, storedKey, ai).storedKey
  /\ ai' = setStoredApiKeyOf(key, storedKey, ai).ai
  /\ UNCHANGED <<envKey, sessionInfo, images, isProcessing, result, error,
                 errorDetails, showErrorDetails, isOnline, isApiKeyMissing,
                 reading, batch>>

\* removeStoredApiKey that leaves the cached client in place.
removeStoredApiKeyKeepsClient ==
  /\ storedKey' = NULL
  /\ UNCHANGED <<envKey, ai, sessionInfo, images, isProcessing, result, error,
                 errorDetails, showErrorDetails, isOnline, isApiKeyMissing,
                 reading, batch>>

\* removeStoredApiKey() (gemini.ts 16-19).
removeStoredApiKey ==
  /\ storedKey' = NULL
  /\ ai' = NULL
  /\ UNCHANGED <<envKey, sessionInfo, images, isProcessing, result, error,
                 errorDetails, showErrorDetails, isOnline, isApiKeyMissing,
                 reading, batch>>

\* analyzeImage is called for count images in a row (gemini.ts 68-76): each
\* call runs getAI and, unless it threw, sends its request.
analyzeImage(count) ==
  /\ Len(calls) + count <= MaxCalls
  /\ ai' = getAIOf(ai, envKey, storedKey).client
  /\ calls' = calls \o DispatchedCalls(count)
  /\ UNCHANGED <<envKey, storedKey, sessionInfo, images, isProcessing, result,
                 error, errorDetails, showErrorDetails, isOnline,
                 isApiKeyMissing, reading, pc, results, lastError, captured>>

\* The collaborator answers the request of call i (gemini.ts 76-173).
analyzeImageAnswered(i, response) ==
  /\ i \in 1..Len(calls)
  /\ ~calls[i].settled
  /\ calls' = [calls EXCEPT ![i] = analyzeImageOf(NULL, response)]
  /\ UNCHANGED <<gemini, sessionInfo, images, isProcessing, result, error,
                 errorDetails, showErrorDetails, isOnline, isApiKeyMissing,
                 reading, pc, results, lastError, captured>>

NextCred ==
  \/ \E key \in CredKeys : setStoredApiKey(key)
  \/ removeStoredApiKey
  \/ \E count \in 1..MaxImages : analyzeImage(count)
  \/ \E i \in 1..MaxCalls, response \in CredResponses : analyzeImageAnswered(i, response)

SpecCred == InitCred /\ [][NextCred]_vars

(* ===================== properties of the pipeline ===================== *)

Succeeded(i) == calls[i].ok

Failed(i) == calls[i].settled /\ ~calls[i].ok

AllFailed == Len(calls) >= 1 /\ \A i \in 1..Len(calls) : Failed(i)

SomeSucceeded == \E i \in 1..Len(calls) : Succeeded(i)

SuccessCount == Cardinality({i \in 1..Len(calls) : Succeeded(i)})

\* processImages has run its try and catch blocks and not yet returned.
BatchDone == pc = "done"

\* normalize(s) = uppercase(s with all whitespace removed); an item without
\* a dotCode has the empty code.
Normalize(item) ==
  IF item.t = "object" /\ item.dotCode.t = "string"
  THEN UpperCase(RemoveWhitespace(item.dotCode.v))
  ELSE <<>>

\* The merge loop can read the item: it is an object whose dotCode is a
\* string or absent.
Readable(item) ==
  item.t = "object" /\ (item.dotCode.t = "string" \/ ~Truthy(item.dotCode))

\* The items image i returned (none when it failed or returned no array).
ReturnedBy(i) ==
  IF Succeeded(i) /\ ItemsOf(calls[i].value).t = "array"
  THEN ItemsOf(calls[i].value).v
  ELSE <<>>

RECURSIVE ReturnedFrom(_)
ReturnedFrom(i) ==
  IF i > Len(calls) THEN <<>> ELSE ReturnedBy(i) \o ReturnedFrom(i + 1)

\* All returned items, by image order, then by within-image order.
Returned == ReturnedFrom(1)

AllReadable == \A k \in 1..Len(Returned) : Readable(Returned[k])

\* Position k holds the first item of its (non-empty) normalized code.
FirstOfItsCode(flat, k) ==
  /\ Normalize(flat[k]) # <<>>
  /\ \A j \in 1..(k - 1) : Normalize(flat[j]) # Normalize(flat[k])

RECURSIVE FirstSeenFrom(_, _)
FirstSeenFrom(flat, k) ==
  IF k > Len(flat) THEN <<>>
  ELSE (IF FirstOfItsCode(flat, k) THEN <<flat[k]>> ELSE <<>>)
         \o FirstSeenFrom(flat, k + 1)

\* C1. Dedup invariant: no two items of a published result have equal
\* normalized codes.
C1_DedupInvariant ==
  result # NULL =>
    \A i, j \in 1..Len(result.items.v) :
      i # j => Normalize(result.items.v[i]) # Normalize(result.items.v[j])

\* C1 witness: a batch whose images returned the same code twice, in two
\* spellings, has published its result.
C1_Witness ==
  /\ BatchDone
  /\ result # NULL
  /\ \E j, k \in 1..Len(Returned) :
       /\ j < k
       /\ Returned[j] # Returned[k]
       /\ Normalize(Returned[j]) = Normalize(Returned[k])
       /\ Normalize(Returned[j]) # <<>>

\* C2. First-wins: the published items are exactly the first item of every
\* non-empty normalized code, in image order then within-image order, each
\* unmodified; the calls array is indexed by image, so this is the same for
\* every order in which the calls settled.
C2_FirstWins ==
  BatchDone /\ result # NULL => result.items.v = FirstSeenFrom(Returned, 1)

\* C2 witness: image 1 returned "A b", image 2 returned "ab"; the result
\* holds image 1's item only.
C2_Witness ==
  /\ BatchDone
  /\ Len(calls) = 2
  /\ ReturnedBy(1) = <<ItemASpaceB>>
  /\ ReturnedBy(2) = <<ItemAB>>
  /\ result # NULL
  /\ result.items.v = <<ItemASpaceB>>

\* C3. Failure isolation: when the batch resumes every call has settled,
\* failed or not, and the failures take nothing away: unless the merge
\* itself cannot read a returned item, a result is published as soon as one
\* image returned an items array, and it holds every usable code returned.
C3_FailureIsolation ==
  BatchDone =>
    /\ \A i \in 1..Len(calls) : calls[i].settled
    /\ (AllReadable /\ \E i \in 1..Len(calls) :
                         Succeeded(i) /\ Truthy(ItemsOf(calls[i].value)))
         => /\ result # NULL
            /\ \A k \in 1..Len(Returned) :
                 Normalize(Returned[k]) # <<>> =>
                   \E n \in 1..Len(result.items.v) :
                     Normalize(result.items.v[n]) = Normalize(Returned[k])

\* C3 witness: one image failed, the other returned item C, and C is in
\* the published result.
C3_Witness ==
  /\ BatchDone
  /\ Len(calls) = 2
  /\ Failed(1)
  /\ ReturnedBy(2) = <<ItemC>>
  /\ result # NULL
  /\ result.items.v = <<ItemC>>

\* The failure's code or message indicates a credential problem.
CredentialProblem(e) ==
  e.code = "MISSING_API_KEY" \/ Includes(e.message, "API Key")

\* The failure's message indicates a network problem.
NetworkProblem(e) == Includes(e.message, "fetch") \/ Includes(e.message, "network")

\* A TransportFailure: a rejection without a mapped status, wrapped with
\* its original message (gemini.ts 172); an empty response is not one.
IsTransportFailure(e) ==
  /\ Head(e.message) = "Analysis failed: "
  /\ e.message # <<"Analysis failed: ">> \o NoTextMessage

\* C4. Partial success: whenever at least one image succeeded the batch
\* published a result whose summary counts the successful images, the
\* input images and the merged items.
C4_PartialSuccess ==
  BatchDone /\ SomeSucceeded =>
    /\ result # NULL
    /\ result.summary =
         SummaryText(SuccessCount, Len(calls), Len(result.items.v))

\* C5. Technical detail preserved: when every image failed and the examined
\* failure is neither a credential nor a network problem, the message is
\* the generic one and errorDetails is the failure's message verbatim.
C5_DetailPreserved ==
  BatchDone /\ AllFailed /\ ~CredentialProblem(lastError)
            /\ ~NetworkProblem(lastError) =>
    /\ error = Str(AnalysisFailedMessage)
    /\ errorDetails = Str(lastError.message)

\* C6. Response re-validation: every value analyzeImage returned has the
\* AnalysisResult shape.
C6_Revalidated ==
  \A i \in 1..Len(calls) : Succeeded(i) => IsAnalysisResult(calls[i].value)

\* C7. Errors only when nothing succeeded: the step in which the batch
\* resumes changes the error message only if no image succeeded, and then
\* it leaves an error or the key setup screen.
C7_ErrorsOnlyWhenNothingSucceeded ==
  [][(ContinuationDue /\ pc' = "done") =>
       /\ (error' # error => ~SomeSucceeded)
       /\ (~SomeSucceeded => (error' # NULL \/ isApiKeyMissing'))]_vars

\* C8. The "no recognizable codes" error is surfaced exactly when the batch
\* has neither a successful nor a failed outcome.
C8_NoCodesOnlyWithoutOutcomes ==
  BatchDone =>
    (error = Str(NoCodesMessage)
       <=> (~SomeSucceeded /\ ~\E i \in 1..Len(calls) : Failed(i)))

\* C9. Credential failure enters credential-entry mode: when every image
\* failed and the examined failure is a credential problem, isApiKeyMissing
\* is true once the batch has resumed.
C9_CredentialEntryMode ==
  BatchDone /\ AllFailed /\ CredentialProblem(lastError) => isApiKeyMissing

\* C9 witness: both calls failed without a key and the setup screen is on.
C9_Witness ==
  /\ BatchDone
  /\ Len(calls) = 2
  /\ AllFailed
  /\ lastError = MissingKeyError
  /\ isApiKeyMissing

\* C10. All-fail network classification: when every image failed with a
\* TransportFailure the batch reports the network error and no result.
C10_AllTransportIsNetwork ==
  BatchDone /\ AllFailed
            /\ (\A i \in 1..Len(calls) : IsTransportFailure(calls[i].error)) =>
    /\ error = Str(NetworkErrorMessage)
    /\ result = NULL

\* Some failed image's failure is a credential problem.
AnyCredentialProblem ==
  \E i \in 1..Len(calls) : Failed(i) /\ CredentialProblem(calls[i].error)

\* Some failed image's failure is a network problem.
AnyNetworkProblem ==
  \E i \in 1..Len(calls) : Failed(i) /\ NetworkProblem(calls[i].error)

C12_FreshCredentialUsed ==
  [][(storedKey' # storedKey /\ Truthy(storedKey')) =>
       /\ ai' = NULL
       /\ getAIOf(ai', envKey', storedKey').client =
            [t |-> "GoogleGenAI", apiKey |-> storedKey']]_vars

\* The item's dotCode is missing, empty or made of whitespace only.
EmptyCode(item) ==
  \/ item.dotCode = Undefined
  \/ /\ item.dotCode.t = "string"
     /\ \A k \in 1..Len(item.dotCode.v) : item.dotCode.v[k] \in Whitespace

\* The distinct codes of the returned items, those with an empty code aside.
UsableCodes ==
  {Normalize(Returned[k]) : k \in {j \in 1..Len(Returned) : ~EmptyCode(Returned[j])}}

\* The images that returned an items array.
ImagesWithItems == {i \in 1..Len(calls) : Succeeded(i) /\ Truthy(ItemsOf(calls[i].value))}

\* C16. Empty-code exclusion: no item of a published result has a missing,
\* empty or whitespace-only dotCode; the summary counts every image that
\* returned items, those with such items included, and only the codes of
\* the other items; and a batch whose returned items all have such codes
\* publishes a result without items.
C16_EmptyCodeExclusion ==
  BatchDone =>
    /\ result # NULL =>
         /\ \A n \in 1..Len(result.items.v) : ~EmptyCode(result.items.v[n])
         /\ result.summary =
              SummaryText(Cardinality(ImagesWithItems), Len(calls),
                          Cardinality(UsableCodes))
    /\ (ImagesWithItems # {} /\ \A k \in 1..Len(Returned) : EmptyCode(Returned[k]))
         => result # NULL /\ result.items.v = <<>>

\* C16 witness: the only image returned an item with the empty code and one
\* with a blank code; the result counts the image and no code.
C16_Witness ==
  /\ BatchDone
  /\ Len(calls) = 1
  /\ ReturnedBy(1) = <<ItemEmpty, ItemBlank>>
  /\ result # NULL
  /\ result.items.v = <<>>
  /\ result.summary = SummaryText(1, 1, 0)

\* C17. Order preservation: the array Promise.all resolves with has one
\* slot per input image, and slot i holds the outcome of image i's call
\* (its value, or null when it failed) whatever the order in which the
\* calls settled; the merge iterates it only when every slot is filled.
C17_OrderPreserved ==
  pc # "idle" =>
    /\ Len(results) = Len(calls)
    /\ images # NULL => Len(results) = Len(images.v)
    /\ \A i \in 1..Len(calls) :
         /\ Succeeded(i) => results[i] = calls[i].value
         /\ Failed(i) => results[i] = NULL
         /\ ~calls[i].settled => results[i] = Undefined
    /\ BatchDone => \A i \in 1..Len(results) : results[i] # Undefined

\* C17 witness: of two images the second one's call settled first, with
\* item C, and its outcome is in slot 2.
C17_Witness ==
  /\ pc = "awaiting"
  /\ Len(calls) = 2
  /\ ~calls[1].settled
  /\ ReturnedBy(2) = <<ItemC>>
  /\ results[1] = Undefined
  /\ results[2] = calls[2].value

\* C18. A message is always shown: a batch that ends without a result
\* leaves a non-empty error message, whatever the classified cause, the
\* credential cause included.
C18_MessageAlwaysShown ==
  BatchDone /\ result = NULL => error # NULL /\ error.t = "string" /\ error.v # <<>>

\* The technical detail is on the screen (App.tsx 544-562).
DetailVisible ==
  /\ MainScreen
  /\ sessionInfo # NULL
  /\ Truthy(error)
  /\ Truthy(errorDetails)
  /\ showErrorDetails

\* C19. Technical detail is never auto-displayed: across batches, resets
\* and toggle clicks, a detail that was not on the screen comes onto it
\* only by the step in which the user clicks the toggle; the error of a
\* later batch starts with its detail hidden.
C19_DetailNeverAutoDisplayed ==
  [][(~DetailVisible /\ DetailVisible') => showErrorDetails' # showErrorDetails]_vars

\* C20. Offline gating: in every interleaving of the online and offline
\* events with the file selection and the reading of the files, the step
\* that enters processImages and dispatches the requests is taken only
\* while isOnline is true.
C20_OfflineGating ==
  [][(pc = "idle" /\ pc' = "awaiting") => isOnline]_vars

\* The message of the failure kind the rejection's status stands for:
\* AuthRejected, ModelUnavailable, RateLimited, BadRequest, or else a
\* TransportFailure that wraps the original message.
KindMessage(r) ==
  CASE r.status = 403 -> Status403Message
    [] r.status = 404 -> Status404Message
    [] r.status = 429 -> Status429Message
    [] r.status = 400 -> Status400Message
    [] OTHER -> <<"Analysis failed: ">>
                  \o (IF r.message # <<>> THEN r.message ELSE <<"Unknown error">>)

\* C21. Status mapping: a request the collaborator rejects fails with the
\* error of the kind its status stands for (403, 404, 429, 400), whatever
\* the text of the rejection, and otherwise with a TransportFailure that
\* wraps the original message.
C21_StatusMapping ==
  [][\A i \in 1..MaxImages, r \in Rejections :
       analyzeImageSettles(i, r) =>
         /\ Failed(i)'
         /\ calls'[i].error.message = KindMessage(r)]_vars

\* The substring from the first opening brace to the last closing brace
\* (nothing when the last closing brace comes first).
Enclosed(text) ==
  IF IndexOf(text, "{") <= LastIndexOf(text, "}")
  THEN SubSeq(text, IndexOf(text, "{"), LastIndexOf(text, "}"))
  ELSE <<>>

\* The error is one of the two malformed-response errors for this text.
IsMalformedResponse(e, text) ==
  e.message \in {InvalidFormatMessage(text), ParseFailedMessage}

\* C22. Malformed response: a non-empty response text without an opening
\* or a closing brace, or whose substring from the first opening brace to
\* the last closing brace does not parse, makes analyzeImage fail with the
\* malformed-response error and return nothing; when the substring parses,
\* the parsed object is the value returned, commentary around it or not.
C22_MalformedResponse ==
  [][\A i \in 1..MaxImages, r \in Responses :
       (analyzeImageSettles(i, r) /\ r.kind = "text" /\ r.text # <<>>) =>
         IF IndexOf(r.text, "{") = 0 \/ LastIndexOf(r.text, "}") = 0
              \/ ~JsonParse(Enclosed(r.text)).ok
         THEN Failed(i)' /\ IsMalformedResponse(calls'[i].error, r.text)
         ELSE calls'[i] = Fulfilled(JsonParse(Enclosed(r.text)).value)]_vars

\* C23. No retry: a batch has exactly one extraction call per input image,
\* and within the batch a call that has settled, failed or not, keeps its
\* outcome: no image is sent again.
C23_NoRetry ==
  [][(pc # "idle" /\ pc' # "idle") =>
       /\ Len(calls') = Len(calls)
       /\ images' # NULL => Len(calls') = Len(images'.v)
       /\ \A i \in 1..Len(calls) : calls[i].settled => calls'[i] = calls[i]]_vars

\* C23 witness: a batch of two images has ended; the first image's call
\* failed and is still the failed call, the second one succeeded.
C23_Witness ==
  /\ BatchDone
  /\ images # NULL
  /\ Len(images.v) = 2
  /\ Len(calls) = 2
  /\ Failed(1)
  /\ Succeeded(2)
  /\ lastError = calls[1].error

\* The failure kind of an error analyzeImage threw, by the message that
\* kind is thrown with (gemini.ts 45, 133, 145, 154, 167-172).
KindOf(e) ==
  CASE e.code = "MISSING_API_KEY" -> "MissingCredential"
    [] e.code # "MISSING_API_KEY" /\ e.message = Status403Message -> "AuthRejected"
    [] e.message = Status404Message -> "ModelUnavailable"
    [] e.message = Status429Message -> "RateLimited"
    [] e.message = Status400Message -> "BadRequest"
    [] e.message = <<"Analysis failed: ">> \o NoTextMessage -> "EmptyResponse"
    [] e.message = ParseFailedMessage -> "MalformedResponse"
    [] e.message # <<>> /\ Head(e.message) = "AI did not return a valid "
         -> "MalformedResponse"
    [] OTHER -> "TransportFailure"

\* C24. Kind-based classification: when every image failed with
\* ModelUnavailable, RateLimited, BadRequest, EmptyResponse or
\* MalformedResponse, the application is not switched into credential-entry
\* mode and the generic "analysis failed" error is reported, whatever text
\* the failure messages carry.
C24_KindBasedClassification ==
  (BatchDone /\ AllFailed
     /\ \A i \in 1..Len(calls) :
          KindOf(calls[i].error) \in
            {"ModelUnavailable", "RateLimited", "BadRequest",
             "EmptyResponse", "MalformedResponse"})
    => ~isApiKeyMissing /\ error = Str(AnalysisFailedMessage)

\* C25. Deterministic error selection: when every image failed, the failure
\* that is classified is the one of the last image in input order, whatever
\* the order in which the calls settled.
C25_LastInImageOrder ==
  BatchDone /\ AllFailed => lastError = calls[Len(calls)].error

\* Exactly one of three conditions holds.
ExactlyOne(a, b, c) == (a /\ ~b /\ ~c) \/ (~a /\ b /\ ~c) \/ (~a /\ ~b /\ c)

\* C26. Batch termination with one outcome: when every dispatched call
\* settles, the batch ends with isProcessing false, and the step in which
\* it resumes does exactly one of three things: it publishes a result, it
\* sets an error message, or it enters credential-entry mode.
C26_TerminatesWithOneOutcome ==
  /\ (pc = "awaiting") ~> (pc = "idle" /\ ~isProcessing)
  /\ [][(ContinuationDue /\ pc' = "done") =>
          ExactlyOne(result' # result /\ result' # NULL,
                     error' # error /\ error' # NULL,
                     isApiKeyMissing' /\ ~isApiKeyMissing)]_vars

\* C26 witness: a batch of two images has ended and returned; its result
\* is published, no error is set and the application is on its main screen.
C26_Witness ==
  /\ pc = "idle"
  /\ ~isProcessing
  /\ images # NULL
  /\ Len(images.v) = 2
  /\ result # NULL
  /\ error = NULL
  /\ ~isApiKeyMissing

\* The batch in flight was abandoned: the user went Home or reset the scan
\* after its dispatch, which emptied images.
Abandoned == pc # "idle" /\ images = NULL

\* C27. Abandoned batch leaves no trace: once the user went Home or reset
\* the scan while a batch was in flight, a session started afterwards does
\* not show the processing flag of that batch, and the step in which the
\* batch resumes changes neither the result nor the error shown.
C27_AbandonedBatchLeavesNoTrace ==
  [][Abandoned =>
       /\ sessionInfo # NULL => ~isProcessing
       /\ (ContinuationDue /\ pc' = "done") =>
            /\ result' = result
            /\ error' = error
            /\ errorDetails' = errorDetails]_vars

\* C29. Merge completeness: a published result holds exactly one item for
\* every non-empty normalized code returned by a successful image, each of
\* its items is one of the returned items, and it is no longer than the
\* sequence of all returned items.
C29_MergeCompleteness ==
  BatchDone /\ result # NULL =>
    /\ \A k \in 1..Len(Returned) :
         Normalize(Returned[k]) # <<>> =>
           Cardinality({n \in 1..Len(result.items.v) :
                          Normalize(result.items.v[n]) = Normalize(Returned[k])}) = 1
    /\ \A n \in 1..Len(result.items.v) :
         \E k \in 1..Len(Returned) : result.items.v[n] = Returned[k]
    /\ Len(result.items.v) <= Len(Returned)

\* C29 witness: image 1 returned "ab" and "c", image 2 returned "c" and
\* "A b"; the result holds image 1's two items.
C29_Witness ==
  /\ BatchDone
  /\ Len(calls) = 2
  /\ ReturnedBy(1) = <<ItemAB, ItemC>>
  /\ ReturnedBy(2) = <<ItemC, ItemASpaceB>>
  /\ result # NULL
  /\ result.items.v = <<ItemAB, ItemC>>

(* ================= properties of the credential module ================ *)

\* The process-level credential is absent, empty or the placeholder.
NoEnvKey == envKey \in {Undefined, Str(<<>>), Placeholder}

\* The locally stored credential is absent or empty.
NoStoredKey == storedKey \in {NULL, Str(<<>>)}

C14_CredentialGating ==
  [][(Len(calls') > Len(calls) /\ ~hasApiKeyOf(envKey, storedKey)) =>
       \A i \in (Len(calls) + 1)..Len(calls') :
         /\ calls'[i].settled
         /\ ~calls'[i].ok
         /\ calls'[i].error.code = "MISSING_API_KEY"]_vars

\* C14 witness: a first call was answered with a payload while a key was
\* there; the key is gone and a batch of two calls has failed with
\* MISSING_API_KEY.
C14_Witness ==
  /\ Len(calls) = 3
  /\ calls[1].ok
  /\ calls[2] = Rejected(MissingKeyError)
  /\ calls[3] = Rejected(MissingKeyError)
  /\ ~hasApiKeyOf(envKey, storedKey)

\* C15. removeStoredApiKey removes the stored credential only: the stored
\* item is gone, process.env.API_KEY is what it was, no client is cached,
\* and hasApiKey() is then true exactly when process.env.API_KEY is present
\* and not the placeholder.
C15_ClearRemovesStoredOnly ==
  [][removeStoredApiKey =>
       /\ storedKey' = NULL
       /\ envKey' = envKey
       /\ ai' = NULL
       /\ hasApiKeyOf(envKey', storedKey')
            <=> envKey' \notin {Undefined, Str(<<>>), Placeholder}]_vars

\* C15 witness: a call built a client from the process-level key "E" while
\* an item was stored; the item has been removed, the client is gone and
\* hasApiKey() is still true.
C15_Witness ==
  /\ envKey = Str(<<"E">>)
  /\ storedKey = NULL
  /\ ai = NULL
  /\ Len(calls) >= 1
  /\ calls[1] = Pending
  /\ hasApiKeyOf(envKey, storedKey)

\* The credential the resolution order yields: the process-level key when
\* present and not the placeholder, else the stored key.
ResolvedCredential == IF NoEnvKey THEN storedKey ELSE envKey

\* C28. Cached-client consistency: after every step of setStoredApiKey,
\* removeStoredApiKey and analyzeImage, a cached client was built from the
\* credential the resolution order yields in that state; the cache is
\* emptied only by a credential mutation and filled only by a call of
\* analyzeImage that found it empty.
C28_CachedClientConsistent ==
  [][/\ ai' # NULL => ai' = [t |-> "GoogleGenAI", apiKey |-> ResolvedCredential']
     /\ (ai' # ai /\ ai' = NULL) =>
          (removeStoredApiKey \/ \E key \in CredKeys : setStoredApiKey(key))
     /\ (ai' # ai /\ ai' # NULL) =>
          (ai = NULL /\ Len(calls') > Len(calls))]_vars

\* C28 witness: with no process-level key, a first call failed for want of
\* a key, then "K" was stored and the client of the next call holds "K".
C28_Witness ==
  /\ envKey = Placeholder
  /\ storedKey = Str(<<"K">>)
  /\ Len(calls) = 2
  /\ calls[1] = Rejected(MissingKeyError)
  /\ calls[2] = Pending
  /\ ai = [t |-> "GoogleGenAI", apiKey |-> Str(<<"K">>)]

\* C30. Storing a key makes a credential available: after setStoredApiKey(k)
\* with a non-empty string k, hasApiKey() is true and a stored credential
\* that was usable is not replaced by an empty one; setStoredApiKey("")
\* changes neither the stored credential nor the cached client.
C30_StoringMakesAvailable ==
  [][\A key \in CredKeys :
       setStoredApiKey(key) =>
         /\ key # <<>> => hasApiKeyOf(envKey', storedKey')
         /\ ~NoStoredKey => ~NoStoredKey'
         /\ key = <<>> => (storedKey' = storedKey /\ ai' = ai)]_vars

====
